---- MODULE Spec2Model ----
(***************************************************************************)
(* AstroGeminiBot: the sliding-window rate limiter (rate_limiter.py), the  *)
(* conversation manager (utils/conversation_manager.py) and the message    *)
(* handler that drives them (handlers/message_handlers.py).                *)
(*                                                                         *)
(* Time.  time.time() returns a float number of seconds.  The model counts *)
(* time in ticks, TicksPerSecond ticks to the second, so that instants     *)
(* between whole seconds exist and int(...) truncation is visible.         *)
(***************************************************************************)
EXTENDS Integers, Sequences, FiniteSets, TLC

\* ------------------------------------------------------------------ bounds
TicksPerSecond == 2
\* the clock of the rate limiter runs from 0 to MaxTime ticks
MaxTime == 6
\* configurations drawn at construction: max_requests in 1..MaxRequestsCfg
MaxRequestsCfg == 2
\* window_seconds in 1..MaxWindowCfg
MaxWindowCfg == 2
\* is_allowed calls on record at any time, all identities together
MaxCalls == 3
\* the clock of the conversation manager runs from 0 to MaxTimeCM ticks
MaxTimeCM == 5
\* max_history in 1..MaxHistoryCfg
MaxHistoryCfg == 2
\* timeout_seconds in 1..MaxTimeoutCfg
MaxTimeoutCfg == 1
\* add_message calls made, all identities together
MaxAppends == 4
\* add_message calls made where return values are observed, all identities together
MaxStoreAppends == 2
\* the clock of the unvalidated configurations runs from 0 to MaxTimeConfig ticks
MaxTimeConfig == 2
\* the clock behind the /stats command runs from 0 to MaxTimeStats ticks
MaxTimeStats == 1
\* text messages that arrive while the bot runs, each handled by one coroutine
NumTasks == 2
\* the clock of the handlers runs from 0 to MaxTimeH ticks
MaxTimeH == 2

Users == {1, 2}

\* ------------------------------------------------------------- variables
VARIABLES
    now,             \* time.time(), in ticks
    max_requests,    \* RateLimiter.max_requests
    window_seconds,  \* RateLimiter.window_seconds
    user_requests,   \* RateLimiter.user_requests: user -> deque of instants
    user_stats,      \* RateLimiter.user_stats: user -> counters
    calls,           \* history: per user, what each is_allowed call since the last
                     \* reset_user returned, in call order
    resets,          \* history: the last reset_user call, when it came and the
                     \* queue it found, kept where resets are observed
    max_history,     \* ConversationManager.max_history
    timeout_seconds, \* ConversationManager.timeout_seconds
    conversations,   \* ConversationManager.conversations: user -> record
    cm_last,         \* history: the last call that wrote to conversations, and what
                     \* add_message found
    n_appended,      \* history: the number of add_message calls so far
    cm_ret,          \* history: what the last call of the conversation manager
                     \* returned and found, kept where return values are observed
                     \* and until the clock moves on
    tasks            \* handle_text coroutines: where each one is, and for whom

rlVars == <<now, max_requests, window_seconds, user_requests, user_stats, calls, resets>>
cmVars == <<max_history, timeout_seconds, conversations, cm_last, n_appended, cm_ret>>
vars == <<rlVars, cmVars, tasks>>

\* ------------------------------------------------------------- helpers
Max(a, b) == IF a >= b THEN a ELSE b

\* int(x) of a non-negative duration given in ticks: whole seconds, truncated
IntSeconds(ticks) == ticks \div TicksPerSecond

\* a number of seconds as a duration in ticks
Ticks(seconds) == seconds * TicksPerSecond

\* d[k] of a defaultdict: the stored value, or the factory's value
Lookup(d, k, default) == IF k \in DOMAIN d THEN d[k] ELSE default

\* a dict whose keys all share one value object: writing one writes all
StoreShared(d, k, v) == [x \in DOMAIN d \cup {k} |-> v]

\* the dict after d[k] = v
Store(d, k, v) == [x \in DOMAIN d \cup {k} |-> IF x = k THEN v ELSE d[x]]

\* ------------------------------------------------------- RateLimiter
\* the factory of user_stats
NewStats == [total_requests |-> 0, blocked_requests |-> 0,
             first_request |-> {}, last_request |-> {}]

\* no purge at all
PurgeNone(q, t, w) == q

\* a purge that keeps the instant that is exactly one window old
RECURSIVE PurgeOlderOnly(_, _, _)
PurgeOlderOnly(q, t, w) ==
    IF q # <<>> /\ Head(q) < t - w THEN PurgeOlderOnly(Tail(q), t, w) ELSE q

\* the while loop of is_allowed: drop the expired instants from the left
RECURSIVE Purge(_, _, _)
Purge(q, t, w) ==
    IF q # <<>> /\ Head(q) <= t - w THEN Purge(Tail(q), t, w) ELSE q

\* counters whose first_request follows every request
TouchStatsFirstFollows(stats, t) ==
    [stats EXCEPT !.total_requests = @ + 1,
                  !.last_request = {t},
                  !.first_request = {t}]

\* the counters after "Update stats"
TouchStats(stats, t) ==
    [stats EXCEPT !.total_requests = @ + 1,
                  !.last_request = {t},
                  !.first_request = IF @ = {} THEN {t} ELSE @]

\* the info a fixed-bucket limiter would give: the reset counted from the newest request
DeniedInfoFromNewest(q, t, w) ==
    [remaining |-> 0,
     reset_at |-> q[Len(q)] + w,
     retry_after |-> IntSeconds(q[Len(q)] + w - t)]

\* the denied branch's rate_limit_info; q is the purged queue
DeniedInfo(q, t, w) ==
    [remaining |-> 0,
     reset_at |-> Head(q) + w,
     retry_after |-> IntSeconds(Head(q) + w - t)]

\* the info with remaining computed as if the request were not yet in the queue
AllowedInfoBeforeAppend(q, t, w, maxreq) ==
    [remaining |-> maxreq - (Len(q) - 1),
     reset_at |-> t + w,
     retry_after |-> 0]

\* the allowed branch's rate_limit_info; q is the queue with t appended
AllowedInfo(q, t, w, maxreq) ==
    [remaining |-> maxreq - Len(q),
     reset_at |-> t + w,
     retry_after |-> 0]

\* an allowed call that forgets to record its instant
RecordNot(q, t) == q

\* an allowed call that puts its instant at the front of the queue
RecordAtFront(q, t) == <<t>> \o q

\* the queue an allowed call leaves
Record(q, t) == Append(q, t)

\* a denied call that records its instant all the same
KeptWithInstant(q, t) == Append(q, t)

\* the queue a denied call leaves: the branch returns without an append
Kept(q, t) == q

\* a limit test that lets one request too many through
OverLimitOffByOne(q, maxreq) == Len(q) > maxreq

\* a limit test that denies one request early, an empty queue included when
\* max_requests is 1
OverLimitOneEarly(q, maxreq) == Len(q) >= maxreq - 1

\* "Check if user has exceeded rate limit"; q is the purged queue
OverLimit(q, maxreq) == Len(q) >= maxreq

\* is_allowed(user_id) at time t: the decision, the info, the queue and the counters.
\* With max_requests <= 0 the limit test succeeds on an empty queue and line 47,
\* user_queue[0], raises IndexError after the counters were updated: the call
\* returns nothing, which the model records as not allowed with the error as info.
is_allowed(q0, stats0, t, w, maxreq) ==
    LET q == Purge(q0, t, w)
        st == TouchStats(stats0, t)
    IN  IF OverLimit(q, maxreq)
        THEN [allowed |-> FALSE,
              info |-> IF q = <<>> THEN [raised |-> "IndexError"] ELSE DeniedInfo(q, t, w),
              queue |-> Kept(q, t),
              stats |-> [st EXCEPT !.blocked_requests = @ + 1]]
        ELSE [allowed |-> TRUE,
              info |-> AllowedInfo(Record(q, t), t, w, maxreq),
              queue |-> Record(q, t),
              stats |-> st]

\* a rate limiter nobody has called
RLFresh ==
    /\ user_requests = <<>>
    /\ user_stats = <<>>
    /\ calls = [u \in Users |-> <<>>]
    /\ resets = [op |-> "off"]

\* a conversation manager nobody has called
CMFresh ==
    /\ conversations = <<>>
    /\ cm_last = [op |-> "none"]
    /\ n_appended = 0
    /\ cm_ret = [op |-> "off"]

\* no update has arrived
NoTasks == tasks = <<>>

\* the component is not part of the specification: default configuration, unused
RLIdle == max_requests = 1 /\ window_seconds = 1 /\ RLFresh
CMIdle == max_history = 1 /\ timeout_seconds = 1 /\ CMFresh

RLInit ==
    /\ CMIdle /\ NoTasks
    /\ now = 0
    /\ max_requests \in 1..MaxRequestsCfg
    /\ window_seconds \in 1..MaxWindowCfg
    /\ RLFresh

\* the last call returned r: on record where return values are observed
Returns(r) == cm_ret' = IF cm_ret.op = "off" THEN cm_ret ELSE r

\* time passes: time.time() moves on by one tick, up to limit
Advance(limit) ==
    /\ now < limit
    /\ now' = now + 1
    /\ Returns([op |-> "none"])
    /\ UNCHANGED <<max_requests, window_seconds, user_requests, user_stats, calls, resets>>
    /\ UNCHANGED <<max_history, timeout_seconds, conversations, cm_last, n_appended, tasks>>

Tick == Advance(MaxTime)

\* the number of is_allowed calls on record
RECURSIVE CountCalls(_, _)
CountCalls(log, us) ==
    IF us = {} THEN 0
    ELSE LET u == CHOOSE x \in us : TRUE
         IN  Len(log[u]) + CountCalls(log, us \ {u})

CallCount == CountCalls(calls, Users)

\* what self.rate_limiter.is_allowed(u) returns at the current instant
IsAllowedNow(u) ==
    is_allowed(Lookup(user_requests, u, <<>>), Lookup(user_stats, u, NewStats),
               now, Ticks(window_seconds), max_requests)

\* the rate limiter after is_allowed(u) at the current instant
DoIsAllowed(u) ==
    LET r == IsAllowedNow(u)
    IN  /\ user_requests' = Store(user_requests, u, r.queue)
        /\ user_stats' = Store(user_stats, u, r.stats)
        /\ calls' = [calls EXCEPT ![u] =
                         Append(@, [at |-> now, allowed |-> r.allowed, info |-> r.info,
                                    before |-> Lookup(user_requests, u, <<>>)])]
        /\ UNCHANGED resets

\* a call of is_allowed(u) at the current instant, while fewer than cap are on record
Call(u, cap) ==
    /\ CallCount < cap
    /\ DoIsAllowed(u)
    /\ UNCHANGED <<now, max_requests, window_seconds>>
    /\ UNCHANGED <<cmVars, tasks>>

IsAllowed(u) == Call(u, MaxCalls)

get_user_stats(q, stats, maxreq) ==
    [total_requests |-> stats.total_requests,
     blocked_requests |-> stats.blocked_requests,
     first_request |-> stats.first_request,
     last_request |-> stats.last_request,
     current_requests_in_window |-> Len(q),
     remaining_requests |-> Max(0, maxreq - Len(q))]

\* the rate limiter after get_user_stats(u): both defaultdicts have looked u up
DoGetUserStats(u) ==
    /\ user_stats' = Store(user_stats, u, Lookup(user_stats, u, NewStats))
    /\ user_requests' = Store(user_requests, u, Lookup(user_requests, u, <<>>))
    /\ UNCHANGED <<calls, resets>>

GetUserStats(u) ==
    /\ DoGetUserStats(u)
    /\ UNCHANGED <<now, max_requests, window_seconds>>
    /\ UNCHANGED <<cmVars, tasks>>

RECURSIVE SumOver(_, _, _)
SumOver(d, keys, field) ==
    IF keys = {} THEN 0
    ELSE LET k == CHOOSE x \in keys : TRUE
         IN  d[k][field] + SumOver(d, keys \ {k}, field)

\* success_rate is a float; the model keeps it as the pair numerator, denominator
get_global_stats(reqs, stats) ==
    LET total == SumOver(stats, DOMAIN stats, "total_requests")
        blocked == SumOver(stats, DOMAIN stats, "blocked_requests")
    IN  [total_users |-> Cardinality(DOMAIN stats),
         active_users |-> Cardinality({u \in DOMAIN reqs : reqs[u] # <<>>}),
         total_requests |-> total,
         blocked_requests |-> blocked,
         success_rate |-> IF total > 0 THEN <<total - blocked, total>> ELSE <<1, 1>>]

\* get_global_stats() reads and changes nothing
GetGlobalStats ==
    /\ get_global_stats(user_requests, user_stats).total_users = Cardinality(DOMAIN user_stats)
    /\ UNCHANGED <<now, max_requests, window_seconds, user_requests, user_stats, calls, resets>>
    /\ UNCHANGED <<cmVars, tasks>>

\* a reset that zeroes the counters and leaves the queue
reset_user_stats_only(reqs, stats, u) ==
    [requests |-> reqs,
     stats |-> IF u \in DOMAIN stats THEN Store(stats, u, NewStats) ELSE stats]

\* the two dicts reset_user(u) leaves
reset_user(reqs, stats, u) ==
    [requests |-> IF u \in DOMAIN reqs THEN Store(reqs, u, <<>>) ELSE reqs,
     stats |-> IF u \in DOMAIN stats THEN Store(stats, u, NewStats) ELSE stats]

ResetUser(u) ==
    /\ user_requests' = reset_user(user_requests, user_stats, u).requests
    /\ user_stats' = reset_user(user_requests, user_stats, u).stats
    /\ calls' = [calls EXCEPT ![u] = <<>>]
    /\ resets' = IF resets.op = "off" THEN resets
                  ELSE [op |-> "reset_user", user |-> u, at |-> now,
                        found |-> Lookup(user_requests, u, <<>>)]
    /\ UNCHANGED <<now, max_requests, window_seconds>>
    /\ UNCHANGED <<cmVars, tasks>>

RLNext ==
    \/ Tick
    \/ \E u \in Users : IsAllowed(u)
    \/ \E u \in Users : GetUserStats(u)
    \/ GetGlobalStats
    \/ \E u \in Users : ResetUser(u)

SpecRL == RLInit /\ [][RLNext]_vars

\* ------------------------------------- the rate limiter with its resets observed
ResetInit ==
    /\ CMIdle /\ NoTasks
    /\ now = 0
    /\ max_requests \in 1..MaxRequestsCfg
    /\ window_seconds \in 1..MaxWindowCfg
    /\ user_requests = <<>>
    /\ user_stats = <<>>
    /\ calls = [u \in Users |-> <<>>]
    /\ resets = [op |-> "none"]

ResetTick == Advance(MaxTime)

ResetIsAllowed(u) == Call(u, MaxCalls)

\* the identities that are reset in SpecReset: one identity, reset at any point of
\* its traffic
ResetUsers == {1}

ResetNext ==
    \/ ResetTick
    \/ \E u \in ResetUsers : ResetIsAllowed(u)
    \/ \E u \in ResetUsers : ResetUser(u)

SpecReset == ResetInit /\ [][ResetNext]_vars

\* ---------------------------------------------------- the scenario of two
\* requests a minute: the calls fall on the instants 0, 10, 20 and 61 seconds
ScenarioSeconds == <<0, 10, 20, 61>>
ScenarioCalls == 4

ScenarioInit ==
    /\ CMIdle /\ NoTasks
    /\ now = 0
    /\ max_requests = 2
    /\ window_seconds = 60
    /\ RLFresh

\* the clock moves on to a later instant of the scenario
ScenarioJump ==
    /\ \E i \in 1..Len(ScenarioSeconds) :
          /\ Ticks(ScenarioSeconds[i]) > now
          /\ now' = Ticks(ScenarioSeconds[i])
    /\ UNCHANGED <<max_requests, window_seconds, user_requests, user_stats, calls, resets>>
    /\ UNCHANGED <<cmVars, tasks>>

ScenarioIsAllowed(u) == Call(u, ScenarioCalls)

ScenarioNext ==
    \/ ScenarioJump
    \/ \E u \in Users : ScenarioIsAllowed(u)

SpecScenario == ScenarioInit /\ [][ScenarioNext]_vars


\* ------------------------------------------------- ConversationManager
Roles == {"system", "user", "assistant"}

\* the factory of conversations, called at time t
NewConversation(t) == [messages |-> <<>>, created_at |-> t, last_activity |-> t]

\* the text of the n-th message anybody sends: every message has a text of its own
Content(n) == n

IsSystem(msg) == msg.role = "system"
NotSystem(msg) == msg.role # "system"

\* Python's s[k:] for a list s and an integer k
PySliceFrom(s, k) ==
    LET start == IF k < 0 THEN Max(0, Len(s) + k) ELSE IF k > Len(s) THEN Len(s) ELSE k
    IN  SubSeq(s, start + 1, Len(s))

\* a trim that keeps the oldest messages instead of the most recent
KeepOldest(other, room) ==
    IF Len(other) > room THEN SubSeq(other, 1, Max(0, room)) ELSE other

\* "Keep the most recent messages": other_messages[-(room):] when it is too long
KeepRecent(other, room) ==
    IF Len(other) > room THEN PySliceFrom(other, -room) ELSE other

\* a trim that treats system messages like any other: the last maxhist of them all
TrimAllRoles(messages, maxhist) == PySliceFrom(messages, -maxhist)

\* the body of "if len(conversation['messages']) > self.max_history"
Trim(messages, maxhist) ==
    LET system_messages == SelectSeq(messages, IsSystem)
        other_messages == SelectSeq(messages, NotSystem)
    IN  system_messages \o KeepRecent(other_messages, maxhist - Len(system_messages))

\* the conversation timed out at time t
TimedOut(conv, t, timeout) == t - conv.last_activity > timeout

\* an append seen before its trim: the new message is in the list, the list is
\* not yet cut back
add_message_untrimmed(conv, role, content, t, maxhist, timeout) ==
    LET c1 == IF TimedOut(conv, t, timeout)
              THEN [conv EXCEPT !.messages = <<>>, !.created_at = t]
              ELSE conv
    IN  [c1 EXCEPT !.messages = Append(@, [role |-> role, content |-> content,
                                           timestamp |-> t]),
                   !.last_activity = t]

\* an append that keeps the old history whatever its age
add_message_no_reset(conv, role, content, t, maxhist, timeout) ==
    LET c2 == [conv EXCEPT !.messages = Append(@, [role |-> role, content |-> content,
                                                   timestamp |-> t]),
                           !.last_activity = t]
    IN  IF Len(c2.messages) > maxhist
        THEN [c2 EXCEPT !.messages = Trim(@, maxhist)]
        ELSE c2

\* the record add_message leaves; conv is conversations[user_id], timeout in ticks
add_message(conv, role, content, t, maxhist, timeout) ==
    LET c1 == IF TimedOut(conv, t, timeout)
              THEN [conv EXCEPT !.messages = <<>>, !.created_at = t]
              ELSE conv
        c2 == [c1 EXCEPT !.messages = Append(@, [role |-> role, content |-> content,
                                                 timestamp |-> t]),
                         !.last_activity = t]
    IN  IF Len(c2.messages) > maxhist
        THEN [c2 EXCEPT !.messages = Trim(@, maxhist)]
        ELSE c2

\* a message without its timestamp
Strip(msg) == [role |-> msg.role, content |-> msg.content]

\* a read that shows the stored messages whether or not the conversation timed out
get_conversation_no_timeout(conv, t, timeout) ==
    [i \in 1..Len(conv.messages) |-> Strip(conv.messages[i])]

\* what get_conversation returns; conv is conversations[user_id]
get_conversation(conv, t, timeout) ==
    IF TimedOut(conv, t, timeout) THEN <<>>
    ELSE [i \in 1..Len(conv.messages) |-> Strip(conv.messages[i])]

CMInit ==
    /\ RLIdle /\ NoTasks
    /\ now = 0
    /\ max_history \in 1..MaxHistoryCfg
    /\ timeout_seconds \in 1..MaxTimeoutCfg
    /\ CMFresh

\* a lookup that counts as activity
ConvTouched(u) ==
    [Lookup(conversations, u, NewConversation(now)) EXCEPT !.last_activity = now]

\* conversations[u], as the defaultdict gives it at the current instant
Conv(u) == Lookup(conversations, u, NewConversation(now))

CMTick == Advance(MaxTimeCM)

\* the conversation manager after add_message(u, role, content) at the current instant
DoAddMessage(u, role, content) ==
    /\ n_appended' = n_appended + 1
    /\ conversations' = Store(conversations, u,
                              add_message(Conv(u), role, content, now,
                                          max_history, Ticks(timeout_seconds)))
    /\ cm_last' = [op |-> "add_message", user |-> u,
                   msg |-> [role |-> role, content |-> content],
                   expired |-> TimedOut(Conv(u), now, Ticks(timeout_seconds)),
                   before |-> Conv(u).messages]
    /\ Returns([op |-> "add_message"])

\* a call of add_message(u, role, ...) while fewer than cap have been made
AddMessageUpTo(u, role, cap) ==
    /\ n_appended < cap
    /\ DoAddMessage(u, role, Content(n_appended + 1))
    /\ UNCHANGED <<now, max_history, timeout_seconds>>
    /\ UNCHANGED <<rlVars, tasks>>

AddMessage(u, role) == AddMessageUpTo(u, role, MaxAppends)

GetConversation(u) ==
    /\ conversations' = Store(conversations, u, Conv(u))
    /\ get_conversation(Conv(u), now, Ticks(timeout_seconds)) \in Seq([role : Roles, content : Nat])
    /\ Returns([op |-> "get_conversation", user |-> u,
                result |-> get_conversation(Conv(u), now, Ticks(timeout_seconds)),
                before |-> conversations])
    /\ UNCHANGED <<now, max_history, timeout_seconds, n_appended, cm_last>>
    /\ UNCHANGED <<rlVars, tasks>>

\* a clear that empties the history and leaves its timestamps
clear_conversation_messages_only(convs, u, t) ==
    IF u \in DOMAIN convs
    THEN Store(convs, u, [convs[u] EXCEPT !.messages = <<>>])
    ELSE convs

\* the dict clear_conversation(u) leaves at time t
clear_conversation(convs, u, t) ==
    IF u \in DOMAIN convs
    THEN Store(convs, u, [messages |-> <<>>, created_at |-> t, last_activity |-> t])
    ELSE convs

ClearConversation(u) ==
    /\ conversations' = clear_conversation(conversations, u, now)
    /\ cm_last' = [op |-> "clear_conversation", user |-> u]
    /\ Returns([op |-> "clear_conversation", user |-> u, before |-> conversations])
    /\ UNCHANGED <<now, max_history, timeout_seconds, n_appended>>
    /\ UNCHANGED <<rlVars, tasks>>

\* strftime('%Y-%m-%d %H:%M') of an instant: the minute it falls in
Minute(t) == t \div Ticks(60)

\* how many messages of the list have the role
RoleCount(messages, role) ==
    Cardinality({i \in 1..Len(messages) : messages[i].role = role})

\* what ConversationManager.get_user_stats returns; conv is conversations[user_id]
conv_get_user_stats(conv, t, timeout) ==
    [message_count |-> Len(conv.messages),
     role_counts |-> [r \in {conv.messages[i].role : i \in 1..Len(conv.messages)} |->
                         RoleCount(conv.messages, r)],
     created_at |-> Minute(conv.created_at),
     last_activity |-> Minute(conv.last_activity),
     is_active |-> t - conv.last_activity <= timeout,
     timeout_in |-> Max(0, IntSeconds(timeout - (t - conv.last_activity)))]

RECURSIVE SumMessages(_, _)
SumMessages(convs, keys) ==
    IF keys = {} THEN 0
    ELSE LET k == CHOOSE x \in keys : TRUE
         IN  Len(convs[k].messages) + SumMessages(convs, keys \ {k})

\* what ConversationManager.get_global_stats returns at time t; the average is a
\* float, kept as the pair numerator, denominator
conv_get_global_stats(convs, t, timeout, maxhist) ==
    LET total_users == Cardinality(DOMAIN convs)
        total_messages == SumMessages(convs, DOMAIN convs)
    IN  [total_users |-> total_users,
         active_users |-> Cardinality({u \in DOMAIN convs :
                                          t - convs[u].last_activity <= timeout}),
         total_messages |-> total_messages,
         average_messages_per_user |->
             IF total_users > 0 THEN <<total_messages, total_users>> ELSE <<0, 1>>,
         max_history_per_user |-> maxhist]

\* the conversation manager after get_user_stats(u) at the current instant
DoConvGetUserStats(u) ==
    /\ conversations' = Store(conversations, u, Conv(u))
    /\ Returns([op |-> "get_user_stats", user |-> u,
                result |-> conv_get_user_stats(Conv(u), now, Ticks(timeout_seconds)),
                before |-> conversations])
    /\ UNCHANGED <<max_history, timeout_seconds, n_appended, cm_last>>

ConvGetUserStats(u) ==
    /\ DoConvGetUserStats(u)
    /\ UNCHANGED now
    /\ UNCHANGED <<rlVars, tasks>>

\* a cleanup that deletes every record that was not used at this very instant
ExpiredUsersAnyIdle(convs, t, timeout) ==
    {u \in DOMAIN convs : t - convs[u].last_activity > 0}

\* a cleanup that deletes as soon as the timeout has passed once
ExpiredUsersAtTimeout(convs, t, timeout) ==
    {u \in DOMAIN convs : t - convs[u].last_activity > timeout}

\* the users cleanup_expired_conversations deletes at time t
ExpiredUsers(convs, t, timeout) ==
    {u \in DOMAIN convs : t - convs[u].last_activity > timeout * 2}

CleanupExpiredConversations ==
    LET expired_users == ExpiredUsers(conversations, now, Ticks(timeout_seconds))
    IN  /\ conversations' = [u \in DOMAIN conversations \ expired_users |-> conversations[u]]
        /\ cm_last' = [op |-> "cleanup_expired_conversations"]
        /\ Returns([op |-> "cleanup_expired_conversations",
                    result |-> Cardinality(expired_users),
                    before |-> conversations])
        /\ UNCHANGED <<now, max_history, timeout_seconds, n_appended>>
        /\ UNCHANGED <<rlVars, tasks>>

\* the identities that talk to the conversation manager in SpecCM: one identity,
\* followed through long histories
CMUsers == {1}

CMNext ==
    \/ CMTick
    \/ \E u \in CMUsers, role \in Roles : AddMessage(u, role)
    \/ \E u \in CMUsers : GetConversation(u)
    \/ \E u \in CMUsers : ClearConversation(u)
    \/ CleanupExpiredConversations

SpecCM == CMInit /\ [][CMNext]_vars

\* ------------------------ the conversation manager with its return values
\* observed: every identity, short histories
StoreInit ==
    /\ RLIdle /\ NoTasks
    /\ now = 0
    /\ max_history \in 1..MaxHistoryCfg
    /\ timeout_seconds \in 1..MaxTimeoutCfg
    /\ conversations = <<>>
    /\ cm_last = [op |-> "none"]
    /\ n_appended = 0
    /\ cm_ret = [op |-> "none"]

StoreTick == Advance(MaxTimeCM)

\* the messages stored here are user messages, told apart by their text: the
\* role plays no part in get_conversation and cleanup_expired_conversations
StoreAddMessage(u) == AddMessageUpTo(u, "user", MaxStoreAppends)

StoreNext ==
    \/ StoreTick
    \/ \E u \in Users : StoreAddMessage(u)
    \/ \E u \in Users : GetConversation(u)
    \/ \E u \in Users : ClearConversation(u)
    \/ CleanupExpiredConversations

SpecStore == StoreInit /\ [][StoreNext]_vars

\* ------------------------ one identity's record under every operation that
\* touches it, return values observed
ActivityUsers == {1}

ActivityInit == StoreInit

ActivityTick == Advance(MaxTimeCM)

ActivityAddMessage(u, role) == AddMessageUpTo(u, role, MaxStoreAppends)

ActivityNext ==
    \/ ActivityTick
    \/ \E u \in ActivityUsers, role \in Roles : ActivityAddMessage(u, role)
    \/ \E u \in ActivityUsers : GetConversation(u)
    \/ \E u \in ActivityUsers : ConvGetUserStats(u)
    \/ \E u \in ActivityUsers : ClearConversation(u)
    \/ CleanupExpiredConversations

SpecActivity == ActivityInit /\ [][ActivityNext]_vars


\* ------------------------- the two stores under any configuration: Config reads
\* its numbers with int(os.getenv(...)), and the constructors store what they get
ConfigValues == -1..1

ConfigInit ==
    /\ NoTasks
    /\ now = 0
    /\ max_requests \in ConfigValues
    /\ window_seconds \in ConfigValues
    /\ RLFresh
    /\ max_history \in ConfigValues
    /\ timeout_seconds \in ConfigValues
    /\ CMFresh

ConfigTick == Advance(MaxTimeConfig)

\* the identity that uses the stores in SpecConfig
ConfigUsers == {1}

ConfigIsAllowed(u) == Call(u, MaxCalls)

ConfigAddMessage(u) == AddMessageUpTo(u, "user", MaxStoreAppends)

ConfigNext ==
    \/ ConfigTick
    \/ \E u \in ConfigUsers : ConfigIsAllowed(u)
    \/ \E u \in ConfigUsers : ConfigAddMessage(u)

SpecConfig == ConfigInit /\ [][ConfigNext]_vars

\* --------------------------------------------- MessageHandlers.handle_text
\* Every update is handled by a coroutine on one event loop: the code between two
\* awaits runs without interruption, and coroutines interleave at the awaits.
Tasks == 1..NumTasks

\* Config.admin_user_ids
AdminUserIds == {2}

\* a configuration check that knows no administrators
is_admin_nobody(u) == FALSE

is_admin(u) == u \in AdminUserIds

\* the text of the message task t handles, and the provider's answer to it
UserText(t) == 2 * t - 1
Reply(t) == 2 * t

\* the configurations under which the handlers can use up the quota of an identity
HInit ==
    /\ now = 0
    /\ max_requests \in 1..NumTasks - 1
    /\ window_seconds = 1
    /\ RLFresh
    /\ max_history = 2
    /\ timeout_seconds = 1
    /\ CMFresh
    /\ NoTasks

HTick ==
    /\ now < MaxTimeH
    /\ now' = now + 1
    /\ UNCHANGED <<max_requests, window_seconds, user_requests, user_stats, calls, resets>>
    /\ UNCHANGED <<cmVars, tasks>>

\* where a coroutine is suspended
TaskAt(t, pc) == t \in DOMAIN tasks /\ tasks[t].pc = pc

Goto(t, pc) == tasks' = [tasks EXCEPT ![t].pc = pc]

\* a handler that goes on to the typing indicator whatever is_allowed said
AfterCheckIgnored(allowed) == "typing"

\* where the handler goes after the rate limit check: "if not is_allowed" sends
\* the rate limit reply and returns
AfterCheck(allowed) == IF allowed THEN "typing" ELSE "rate_limited"

\* handle_text from its start to its first await: the rate limit check, then the
\* rate limit reply or the typing indicator.  call is the place of the task's
\* is_allowed call in calls[u], 0 when it made none.
HandleText(t, u) ==
    /\ t \notin DOMAIN tasks
    /\ \A x \in Tasks : x < t => x \in DOMAIN tasks
    /\ IF is_admin(u)
       THEN /\ tasks' = Store(tasks, t, [pc |-> "typing", user |-> u, call |-> 0])
            /\ UNCHANGED <<user_requests, user_stats, calls, resets>>
       ELSE /\ DoIsAllowed(u)
            /\ tasks' = Store(tasks, t,
                   [pc |-> AfterCheck(IsAllowedNow(u).allowed),
                    user |-> u, call |-> Len(calls[u]) + 1])
    /\ UNCHANGED <<now, max_requests, window_seconds, cmVars>>

\* a handler that files the user's text under the system role
UserRoleSystem == "system"

\* the role handle_text stores the user's text under
UserRole == "user"

\* from the typing indicator to the provider call: no service is available, or the
\* history is read, the user's message stored and the provider called
SelectAndSend(t) ==
    /\ TaskAt(t, "typing")
    /\ \E service \in BOOLEAN :
          IF ~service
          THEN /\ Goto(t, "no_service")
               /\ UNCHANGED cmVars
          ELSE /\ get_conversation(Conv(tasks[t].user), now, Ticks(timeout_seconds)) \in Seq([role : Roles, content : Nat])
               /\ DoAddMessage(tasks[t].user, UserRole, UserText(t))
               /\ Goto(t, "generating")
               /\ UNCHANGED <<max_history, timeout_seconds>>
    /\ UNCHANGED rlVars

\* generate_response returns: the answer is stored and sent
ResponseReturned(t) ==
    /\ TaskAt(t, "generating")
    /\ DoAddMessage(tasks[t].user, "assistant", Reply(t))
    /\ Goto(t, "replying")
    /\ UNCHANGED <<max_history, timeout_seconds>>
    /\ UNCHANGED rlVars

\* generate_response raises: the except branch sends the error message
ResponseFailed(t) ==
    /\ TaskAt(t, "generating")
    /\ Goto(t, "error_reply")
    /\ UNCHANGED <<rlVars, cmVars>>

\* the last reply_text of the coroutine returns
ReplySent(t) ==
    /\ t \in DOMAIN tasks
    /\ tasks[t].pc \in {"rate_limited", "no_service", "replying", "error_reply"}
    /\ Goto(t, "done")
    /\ UNCHANGED <<rlVars, cmVars>>

\* CommandHandlers.clear, the /clear command, up to its reply
ClearCommand(u) == ClearConversation(u)

HNext ==
    \/ HTick
    \/ \E t \in Tasks, u \in Users : HandleText(t, u)
    \/ \E t \in Tasks : SelectAndSend(t)
    \/ \E t \in Tasks : ResponseReturned(t)
    \/ \E t \in Tasks : ResponseFailed(t)
    \/ \E t \in Tasks : ReplySent(t)

SpecHandler == HInit /\ [][HNext]_vars

\* ------------------------------- the dispatch layer that writes to the
\* conversation store: handle_text and the /clear command, any history length
DispatchInit ==
    /\ now = 0
    /\ max_requests \in 1..NumTasks - 1
    /\ window_seconds = 1
    /\ RLFresh
    /\ max_history \in 1..MaxHistoryCfg
    /\ timeout_seconds = 1
    /\ CMFresh
    /\ NoTasks

\* the identity that writes here: one, not an administrator, so that its updates
\* pass the rate limit check
DispatchUsers == {1}

DispatchNext ==
    \/ HTick
    \/ \E t \in Tasks, u \in DispatchUsers : HandleText(t, u)
    \/ \E t \in Tasks : SelectAndSend(t)
    \/ \E t \in Tasks : ResponseReturned(t)
    \/ \E t \in Tasks : ResponseFailed(t)
    \/ \E t \in Tasks : ReplySent(t)
    \/ \E u \in DispatchUsers : ClearCommand(u)

SpecDispatch == DispatchInit /\ [][DispatchNext]_vars

\* ------------------------------- the two stores behind the /stats command
StatsInit ==
    /\ NoTasks
    /\ now = 0
    /\ max_requests \in 1..MaxRequestsCfg
    /\ window_seconds = 1
    /\ RLFresh
    /\ max_history \in 1..MaxHistoryCfg
    /\ timeout_seconds = 1
    /\ CMFresh

StatsTick == Advance(MaxTimeStats)

StatsIsAllowed(u) == Call(u, MaxCalls)

StatsAddMessage(u) == AddMessageUpTo(u, "user", MaxStoreAppends)

\* CommandHandlers.stats up to its reply: both get_user_stats, and for an
\* administrator the rate limiter's get_global_stats, which reads only
StatsCommand(u) ==
    /\ DoGetUserStats(u)
    /\ DoConvGetUserStats(u)
    /\ is_admin(u) =>
          get_global_stats(user_requests', user_stats').total_users
              = Cardinality(DOMAIN user_stats')
    /\ UNCHANGED <<now, max_requests, window_seconds, tasks>>

StatsNext ==
    \/ StatsTick
    \/ \E u \in Users : StatsIsAllowed(u)
    \/ \E u \in Users : StatsAddMessage(u)
    \/ \E u \in Users : GetConversation(u)
    \/ \E u \in Users : StatsCommand(u)

SpecStats == StatsInit /\ [][StatsNext]_vars

\* ------------------------------- both stores under the operations that name
\* one identity, two identities at work
IsolationInit ==
    /\ NoTasks
    /\ now = 0
    /\ max_requests = 1
    /\ window_seconds = 1
    /\ RLFresh
    /\ max_history = 1
    /\ timeout_seconds = 1
    /\ CMFresh

IsolationTick == Advance(MaxTimeStats)

IsolationIsAllowed(u) == Call(u, MaxCalls - 1)

IsolationAddMessage(u) == AddMessageUpTo(u, "user", MaxStoreAppends)

IsolationNext ==
    \/ IsolationTick
    \/ \E u \in Users : IsolationIsAllowed(u)
    \/ \E u \in Users : ResetUser(u)
    \/ \E u \in Users : GetUserStats(u)
    \/ \E u \in Users : IsolationAddMessage(u)
    \/ \E u \in Users : GetConversation(u)
    \/ \E u \in Users : ClearConversation(u)
    \/ \E u \in Users : ConvGetUserStats(u)

SpecIsolation == IsolationInit /\ [][IsolationNext]_vars

\* ============================================================ claims
\* the window of the limiter, in ticks
W == Ticks(window_seconds)

\* u's allowed calls
AdmittedCalls(u) == {i \in 1..Len(calls[u]) : calls[u][i].allowed}

\* u's allowed calls in the window (T - W, T] that ends at T
AdmittedIn(u, T) ==
    {i \in AdmittedCalls(u) : calls[u][i].at > T - W /\ calls[u][i].at <= T}

\* u's allowed calls in the window [T, T + W) that starts at T
AdmittedFrom(u, T) ==
    {i \in AdmittedCalls(u) : calls[u][i].at >= T /\ calls[u][i].at < T + W}

\* C1: for one identity, calls at non-decreasing times and no reset: the allowed
\* calls within any sliding window of window_seconds never number more than
\* max_requests.  The window is the interval of that length that ends at, or
\* starts at, any instant T, with its far end left out: (T - window, T] and
\* [T, T + window).  (Line 35 purges every instant <= now - window: a request
\* exactly window_seconds old has left the window, so two requests exactly
\* window_seconds apart are never in one window.)
C1_SlidingWindow ==
    \A u \in Users : \A T \in 0..MaxTime :
        /\ Cardinality(AdmittedIn(u, T)) <= max_requests
        /\ Cardinality(AdmittedFrom(u, T)) <= max_requests

\* an identity was allowed more calls than max_requests, and denied one
C1_Witness ==
    \E u \in Users :
        /\ Cardinality(AdmittedCalls(u)) > max_requests
        /\ \E i \in 1..Len(calls[u]) : ~calls[u][i].allowed

\* the is_allowed call task t made
CallOf(t) == calls[tasks[t].user][tasks[t].call]

\* the requests of quota left when call c was made
QuotaBefore(c) == max_requests - Len(Purge(c.before, c.at, W))

\* the queue call c left
QueueAfter(c) ==
    IF c.allowed THEN Append(Purge(c.before, c.at, W), c.at) ELSE Purge(c.before, c.at, W)

\* pairs of handlers of one non-admin identity, the first of which made its
\* is_allowed call with exactly one request of quota left, the second of which made
\* its call later while no instant had left the window
RacingPairs ==
    {p \in (DOMAIN tasks) \X (DOMAIN tasks) :
        /\ p[1] # p[2]
        /\ tasks[p[1]].user = tasks[p[2]].user
        /\ ~is_admin(tasks[p[1]].user)
        /\ tasks[p[1]].call > 0 /\ tasks[p[1]].call < tasks[p[2]].call
        /\ QuotaBefore(CallOf(p[1])) = 1
        /\ Purge(QueueAfter(CallOf(p[1])), CallOf(p[2]).at, W) = QueueAfter(CallOf(p[1]))}

\* C2: when two handlers of the same non-admin identity run concurrently while
\* exactly one request's worth of quota remains in the window, at most one of them
\* observes allowed = true, whatever the interleaving.
C2_OneWinner ==
    \A p \in RacingPairs : ~(CallOf(p[1]).allowed /\ CallOf(p[2]).allowed)

\* two handlers of one identity are both suspended at an await, the first let
\* through with the last request of quota, the second turned away
C2_Witness ==
    \E p \in RacingPairs :
        /\ tasks[p[1]].pc \in {"typing", "generating"}
        /\ tasks[p[2]].pc = "rate_limited"
        /\ CallOf(p[1]).allowed /\ ~CallOf(p[2]).allowed

\* the oldest instant of queue q still inside the window at time t
OldestInWindow(q, t) ==
    LET inw == {q[i] : i \in {j \in 1..Len(q) : q[j] > t - W}}
    IN  CHOOSE x \in inw : \A y \in inw : x <= y

\* the denied calls on record
Denied == UNION {{<<u, i>> : i \in {j \in 1..Len(calls[u]) : ~calls[u][j].allowed}} :
                   u \in Users}

\* C3 as stated: every denied call returns remaining = 0, reset_at = oldest
\* instant in the window + window_seconds, and retry_after exactly reset_at - now.
C3_RetryExact ==
    \A d \in Denied :
        LET c == calls[d[1]][d[2]]
        IN  /\ c.info.remaining = 0
            /\ c.info.reset_at = OldestInWindow(c.before, c.at) + W
            /\ Ticks(c.info.retry_after) = c.info.reset_at - c.at

\* C3 amended: every denied call returns remaining = 0, reset_at = oldest instant
\* in the window + window_seconds, and retry_after = reset_at - now truncated to
\* whole seconds: retry_after <= reset_at - now < retry_after + 1.
C3_RetryTruncated ==
    \A d \in Denied :
        LET c == calls[d[1]][d[2]]
        IN  /\ c.info.remaining = 0
            /\ c.info.reset_at = OldestInWindow(c.before, c.at) + W
            /\ Ticks(c.info.retry_after) <= c.info.reset_at - c.at
            /\ c.info.reset_at - c.at < Ticks(c.info.retry_after + 1)

\* a call was denied at an instant that is not a whole number of seconds before
\* the reset, with more than one instant in the window
C3_Witness ==
    \E d \in Denied :
        LET c == calls[d[1]][d[2]]
        IN  /\ (c.info.reset_at - c.at) % TicksPerSecond # 0
            /\ Len(c.before) > 1
            /\ c.before[1] # c.before[Len(c.before)]

\* the instants of u's calls on record
CallTimes(u) == [i \in 1..Len(calls[u]) |-> calls[u][i].at]

\* what the i-th call of u returned: allowed, remaining, retry_after
Returned(u, i) ==
    <<calls[u][i].allowed, calls[u][i].info.remaining, calls[u][i].info.retry_after>>

\* C4: with max_requests = 2 and window_seconds = 60, the calls of a fresh identity
\* at t = 0, 10, 20, 61 return: allowed with remaining 1, allowed with remaining 0,
\* denied with retry_after 40, allowed with remaining 0.
C4_Scenario ==
    \A u \in Users :
        \A n \in 1..Len(ScenarioSeconds) :
            (/\ Len(calls[u]) >= n
             /\ \A i \in 1..n : calls[u][i].at = Ticks(ScenarioSeconds[i]))
            => /\ n >= 1 => Returned(u, 1) = <<TRUE, 1, 0>>
               /\ n >= 2 => Returned(u, 2) = <<TRUE, 0, 0>>
               /\ n >= 3 => Returned(u, 3) = <<FALSE, 0, 40>>
               /\ n >= 4 => Returned(u, 4) = <<TRUE, 0, 0>>

\* an identity made exactly the four calls of the scenario
C4_Witness ==
    \E u \in Users :
        /\ max_requests = 2 /\ window_seconds = 60
        /\ CallTimes(u) = [i \in 1..4 |-> Ticks(ScenarioSeconds[i])]

\* ---- the conversation manager's claims, on the state add_message leaves
Appended == cm_last.op = "add_message"

\* the stored messages of the identity last appended to
After == conversations[cm_last.user].messages

\* the list add_message appended to: the stored one, or none after a timeout
Base == IF cm_last.expired THEN <<>> ELSE cm_last.before

\* the message as stored by the last add_message
NewMsg == [role |-> cm_last.msg.role, content |-> cm_last.msg.content,
           timestamp |-> conversations[cm_last.user].last_activity]

Untrimmed == Append(Base, NewMsg)

SystemOf(messages) == SelectSeq(messages, IsSystem)
OthersOf(messages) == SelectSeq(messages, NotSystem)

\* the append pushed the length above max_history
Trimmed == Len(Untrimmed) > max_history

\* the n most recent elements of s; none when n <= 0
MostRecent(s, n) ==
    IF n <= 0 THEN <<>> ELSE IF n >= Len(s) THEN s ELSE SubSeq(s, Len(s) - n + 1, Len(s))

\* C5: whenever an identity's stored system messages number at most max_history,
\* its stored message list is at most max_history long.
C5_LengthBound ==
    \A u \in DOMAIN conversations :
        Len(SystemOf(conversations[u].messages)) <= max_history
        => Len(conversations[u].messages) <= max_history

\* C6: trimming never removes a system message: with no timeout, every system
\* message stored before an append, and the appended one if it is one, is stored
\* after it in the same order, also when the system messages alone exceed max_history.
C6_SystemKept ==
    (Appended /\ ~cm_last.expired)
    => SystemOf(After) = SystemOf(Append(cm_last.before, NewMsg))

\* an append to a conversation whose system messages alone exceeded max_history
\* trimmed a non-system message away
C6_Witness ==
    /\ Appended /\ ~cm_last.expired /\ Trimmed
    /\ Len(SystemOf(cm_last.before)) > max_history
    /\ Len(OthersOf(After)) < Len(OthersOf(Untrimmed))

\* C7: when an append trims and max_history - systemCount <= 0, no non-system
\* message is kept: the stored messages are the system messages only.
C7_NoRoomKeepsNone ==
    (Appended /\ Trimmed /\ max_history - Len(SystemOf(Untrimmed)) <= 0)
    => OthersOf(After) = <<>>

\* C8: when an append pushes the length above max_history, the stored result is
\* all system messages in their order, then exactly the most recent
\* max_history - systemCount non-system messages in their order.
C8_TrimResult ==
    (Appended /\ Trimmed)
    => After = SystemOf(Untrimmed) \o
               MostRecent(OthersOf(Untrimmed), max_history - Len(SystemOf(Untrimmed)))

\* C9: appending to a live conversation of exactly k system messages and
\* max_history - k non-system ones, 0 <= k <= max_history, leaves length
\* max_history, the k system messages intact and the oldest non-system message
\* dropped.  (With k = max_history the only non-system message there is to drop
\* is the appended one, so the appended message is then taken to be non-system.)
C9_AppendAtCapacity ==
    (/\ Appended /\ ~cm_last.expired
     /\ Len(cm_last.before) = max_history
     /\ (NotSystem(NewMsg) \/ Len(SystemOf(cm_last.before)) < max_history))
    => /\ Len(After) = max_history
       /\ SubSeq(SystemOf(After), 1, Len(SystemOf(cm_last.before))) = SystemOf(cm_last.before)
       /\ OthersOf(After) = Tail(OthersOf(Untrimmed))

\* the reads of the identity last appended to that fall within the timeout
LiveReads ==
    {t \in now..MaxTimeCM :
        ~TimedOut(conversations[cm_last.user], t, Ticks(timeout_seconds))}

\* the read at time t returns the message just appended as its last element
ReadsBackLast(t) ==
    LET r == get_conversation(conversations[cm_last.user], t, Ticks(timeout_seconds))
    IN  r # <<>> /\ r[Len(r)] = cm_last.msg

\* C10 as stated: append followed immediately by a read within the timeout
\* returns a sequence whose last element is the message just appended.  (Stated
\* for the appends that leave room for a non-system message, max_history -
\* systemCount >= 1; the appends with no room left are C7's.)
C10_ReadBackLast ==
    (Appended /\ max_history - Len(SystemOf(Untrimmed)) >= 1)
    => \A t \in LiveReads : ReadsBackLast(t)

\* C10 amended: the same, for an append that does not push the length above
\* max_history, and for a non-system message appended to a conversation that
\* holds fewer than max_history system messages.
C10_ReadBackLastKept ==
    (/\ Appended
     /\ \/ ~Trimmed
        \/ NotSystem(NewMsg) /\ Len(SystemOf(Untrimmed)) < max_history)
    => \A t \in LiveReads : ReadsBackLast(t)

\* a non-system message was appended with a trim, next to a system message, and
\* is read back a tick later
C10_Witness ==
    /\ Appended /\ Trimmed /\ NotSystem(NewMsg)
    /\ SystemOf(Untrimmed) # <<>>
    /\ Len(SystemOf(Untrimmed)) < max_history
    /\ now > conversations[cm_last.user].last_activity
    /\ now \in LiveReads

\* ---- the conversation manager's claims on what its calls return
\* the last call was get_conversation for an identity that had a stored record
ReadStored ==
    /\ cm_ret.op = "get_conversation"
    /\ cm_ret.user \in DOMAIN cm_ret.before

\* the record the read found
ReadRecord == cm_ret.before[cm_ret.user]

\* the read came more than timeout_seconds after the last activity
ReadLate == now - ReadRecord.last_activity > Ticks(timeout_seconds)

\* role and content of every message of a list, in its order
RoleAndContent(messages) ==
    [i \in 1..Len(messages) |->
        [role |-> messages[i].role, content |-> messages[i].content]]

\* C11: get_conversation more than timeout_seconds after the last activity returns
\* the empty list and leaves the stored record (messages, created_at,
\* last_activity) unchanged; within timeout_seconds it returns all stored messages
\* in stored order, role and content only.
C11_Read ==
    ReadStored =>
        /\ conversations[cm_ret.user] = ReadRecord
        /\ ReadLate => cm_ret.result = <<>>
        /\ ~ReadLate => cm_ret.result = RoleAndContent(ReadRecord.messages)

\* a conversation of two messages was read after it timed out
C11_Witness ==
    /\ ReadStored /\ ReadLate
    /\ Len(ReadRecord.messages) = 2
    /\ cm_ret.result = <<>>

\* the last call read the conversation that add_message had written at this instant
ReadAfterAppend ==
    /\ Appended
    /\ cm_ret.op = "get_conversation"
    /\ cm_ret.user = cm_last.user
    /\ conversations[cm_last.user].last_activity = now

\* C12: an append more than timeout_seconds after the last activity discards the
\* whole old history and resets created_at to the instant of the append, so that a
\* read at that instant returns only the newly appended message.
C12_ResetOnWrite ==
    (Appended /\ cm_last.expired) =>
        /\ After = <<NewMsg>>
        /\ conversations[cm_last.user].created_at = conversations[cm_last.user].last_activity
        /\ ReadAfterAppend => cm_ret.result = <<cm_last.msg>>

\* a message was appended to a timed-out conversation that held one, and the
\* conversation was read at the same instant
C12_Witness ==
    /\ ReadAfterAppend /\ cm_last.expired
    /\ cm_last.before # <<>>
    /\ conversations[cm_last.user].created_at = now
    /\ Len(cm_ret.result) = 1

\* the last call was cleanup_expired_conversations
Swept == cm_ret.op = "cleanup_expired_conversations"

\* the identities whose last activity was more than twice timeout_seconds before the sweep
Stale == {u \in DOMAIN cm_ret.before :
            now - cm_ret.before[u].last_activity > 2 * Ticks(timeout_seconds)}

\* C13: cleanup_expired_conversations deletes exactly the identities whose
\* now - last_activity > 2 * timeout_seconds, returns the number deleted, and
\* leaves every other identity's record (messages, created_at, last_activity)
\* unchanged.
C13_Sweep ==
    Swept =>
        /\ DOMAIN conversations = DOMAIN cm_ret.before \ Stale
        /\ \A u \in DOMAIN conversations : conversations[u] = cm_ret.before[u]
        /\ cm_ret.result = Cardinality(Stale)

\* a sweep deleted one identity's conversation and kept another's, which had
\* timed out but not twice over
C13_Witness ==
    /\ Swept /\ cm_ret.result = 1
    /\ \E u \in DOMAIN conversations :
          /\ conversations[u].messages # <<>>
          /\ now - conversations[u].last_activity > Ticks(timeout_seconds)
    /\ \E u \in Stale : cm_ret.before[u].messages # <<>>

\* ---- the rate limiter's claims on its counters and return values
\* the counters of u, those of the factory while u has none
StatsOf(u) == Lookup(user_stats, u, NewStats)

\* u's denied calls
DeniedCalls(u) == {i \in 1..Len(calls[u]) : ~calls[u][i].allowed}

\* C14: every is_allowed call adds exactly 1 to total_requests, sets last_request
\* to now and sets first_request only if it is unset; blocked_requests grows by 1
\* exactly when the call is denied.  So in every state, with the calls since the
\* last reset: total_requests is their number, blocked_requests the number of the
\* denied ones, first_request the instant of the first and last_request of the
\* last; total_requests >= blocked_requests >= 0 and their difference is the
\* number of allowed calls.
C14_Counters ==
    \A u \in Users :
        LET st == StatsOf(u)
            n == Len(calls[u])
        IN  /\ st.total_requests = n
            /\ st.blocked_requests = Cardinality(DeniedCalls(u))
            /\ st.first_request = IF n = 0 THEN {} ELSE {calls[u][1].at}
            /\ st.last_request = IF n = 0 THEN {} ELSE {calls[u][n].at}
            /\ st.total_requests >= st.blocked_requests
            /\ st.blocked_requests >= 0
            /\ st.total_requests - st.blocked_requests = Cardinality(AdmittedCalls(u))

\* an identity has allowed and denied calls on record, the last at a later
\* instant than the first
C14_Witness ==
    \E u \in Users :
        /\ AdmittedCalls(u) # {} /\ DeniedCalls(u) # {}
        /\ calls[u][Len(calls[u])].at > calls[u][1].at
        /\ user_stats[u].blocked_requests > 0

\* the identities whose last call since the last reset was allowed; their queue is
\* still as that call left it
LastAllowed == {u \in Users : calls[u] # <<>> /\ calls[u][Len(calls[u])].allowed}

\* list a is what is left of list b after dropping elements from its front
IsSuffix(a, b) == \E k \in 0..Len(b) : a = SubSeq(b, k + 1, Len(b))

\* C15: every allowed is_allowed call appends now to the identity's queue and
\* returns remaining = max_requests - (queue length after the append), reset_at =
\* now + window_seconds and retry_after = 0; remaining is in 0..max_requests - 1.
C15_AllowedInfo ==
    /\ \A u \in LastAllowed :
          LET c == calls[u][Len(calls[u])]
              q == user_requests[u]
          IN  /\ q # <<>> /\ q[Len(q)] = c.at
              /\ IsSuffix(SubSeq(q, 1, Len(q) - 1), c.before)
              /\ c.info.remaining = max_requests - Len(q)
    /\ \A u \in Users : \A i \in AdmittedCalls(u) :
          /\ calls[u][i].info.reset_at = calls[u][i].at + W
          /\ calls[u][i].info.retry_after = 0
          /\ calls[u][i].info.remaining \in 0..max_requests - 1

\* an allowed call found a full queue, dropped its oldest instant and took the
\* last place
C15_Witness ==
    \E u \in LastAllowed :
        /\ max_requests > 1
        /\ Len(calls[u][Len(calls[u])].before) = max_requests
        /\ Len(user_requests[u]) = max_requests
        /\ calls[u][Len(calls[u])].info.remaining = 0

\* what get_user_stats(u) returns in the current state
UserStatsNow(u) ==
    get_user_stats(Lookup(user_requests, u, <<>>), StatsOf(u), max_requests)

\* the number of u's allowed requests that are inside the window now
InWindowNow(u) == Cardinality(AdmittedIn(u, now))

\* C16: get_user_stats(u) reports the counters as they are, and reports
\* current_requests_in_window as the number of u's allowed requests whose instant
\* is still inside the window at the time of the query, with remaining_requests =
\* max(0, max_requests - current_requests_in_window).
C16_StatsInWindow ==
    \A u \in Users :
        LET r == UserStatsNow(u)
        IN  /\ r.total_requests = StatsOf(u).total_requests
            /\ r.blocked_requests = StatsOf(u).blocked_requests
            /\ r.first_request = StatsOf(u).first_request
            /\ r.last_request = StatsOf(u).last_request
            /\ r.current_requests_in_window = InWindowNow(u)
            /\ r.remaining_requests = Max(0, max_requests - InWindowNow(u))

\* what get_global_stats() returns in the current state
GlobalStatsNow == get_global_stats(user_requests, user_stats)

\* the number of denied calls on record
BlockedCount == Cardinality(Denied)

\* C17: get_global_stats() reports active_users as the number of identities that
\* have at least one allowed request inside the window at the time of the query,
\* total_requests and blocked_requests as the sums over all known identities, and
\* success_rate = (total - blocked) / total, 1.0 when total = 0.
C17_GlobalStats ==
    LET g == GlobalStatsNow
    IN  /\ g.active_users = Cardinality({u \in Users : InWindowNow(u) > 0})
        /\ g.total_requests = CallCount
        /\ g.blocked_requests = BlockedCount
        /\ g.success_rate = IF CallCount = 0 THEN <<1, 1>>
                             ELSE <<CallCount - BlockedCount, CallCount>>

\* an identity has been reset; calls[resets.user] holds its calls since
WasReset == resets.op = "reset_user"

\* the calls of the reset identity since its reset
SinceReset == calls[resets.user]

\* C18: reset_user(u) empties u's queue and sets total_requests and
\* blocked_requests to 0 and first_request and last_request to unset; afterwards
\* u is allowed max_requests times in a row, whatever its earlier traffic was.
C18_Reset ==
    WasReset =>
        /\ SinceReset = <<>> =>
              /\ Lookup(user_requests, resets.user, <<>>) = <<>>
              /\ StatsOf(resets.user) = [total_requests |-> 0, blocked_requests |-> 0,
                                         first_request |-> {}, last_request |-> {}]
        /\ \A i \in 1..Len(SinceReset) : i <= max_requests => SinceReset[i].allowed

\* an identity was reset while its queue was full and nothing had left the
\* window, and was then allowed max_requests times at that very instant
C18_Witness ==
    /\ WasReset
    /\ max_requests > 1
    /\ Len(resets.found) = max_requests
    /\ resets.found[1] > resets.at - W
    /\ Len(SinceReset) = max_requests
    /\ \A i \in 1..Len(SinceReset) : SinceReset[i].allowed /\ SinceReset[i].at = resets.at

\* ---- the handler's claims
\* the handlers of the messages of identity u
TasksOf(u) == {t \in DOMAIN tasks : tasks[t].user = u}

\* C19: for an identity in admin_user_ids, handle_text never calls is_allowed:
\* every message from it goes on to the provider dispatch however many it has
\* sent, and its queue and counters in the rate limiter are never touched.
C19_AdminBypass ==
    \A u \in AdminUserIds :
        /\ calls[u] = <<>>
        /\ u \notin DOMAIN user_requests
        /\ u \notin DOMAIN user_stats
        /\ \A t \in TasksOf(u) : tasks[t].call = 0 /\ tasks[t].pc # "rate_limited"

\* an administrator has sent more messages than max_requests at one instant, and
\* every one of them has reached the provider call
C19_Witness ==
    \E u \in AdminUserIds :
        /\ Cardinality(TasksOf(u)) > max_requests
        /\ \A t \in TasksOf(u) : tasks[t].pc = "generating"
        /\ now = 0

\* ---- the configuration's claim
\* C20: a rate limiter or a conversation manager constructed with an invalid
\* configuration value (a negative or zero window_seconds, max_requests,
\* max_history or timeout_seconds) is rejected at construction, so that no store
\* with such a configuration ever serves an operation.
C20_ConfigRejected ==
    /\ CallCount > 0 => max_requests > 0 /\ window_seconds > 0
    /\ n_appended > 0 => max_history > 0 /\ timeout_seconds > 0

\* ---- the claims on what creates a record
\* the identities that have made an is_allowed call
Requesters == {u \in Users : calls[u] # <<>>}

\* the identities that have appended a message
Writers == {u \in Users : n_appended > 0 /\ u \in DOMAIN conversations
                            /\ conversations[u].messages # <<>>}

\* C21: records are created only by a first request or a first message:
\* get_user_stats of the rate limiter, get_conversation and get_user_stats of the
\* conversation manager never add an identity to either store, so total_users in
\* either get_global_stats counts only the identities that have made an
\* is_allowed call, respectively appended a message.
C21_LazyRecords ==
    /\ DOMAIN user_stats \subseteq Requesters
    /\ DOMAIN user_requests \subseteq Requesters
    /\ DOMAIN conversations \subseteq Writers
    /\ get_global_stats(user_requests, user_stats).total_users = Cardinality(Requesters)
    /\ conv_get_global_stats(conversations, now, Ticks(timeout_seconds),
                             max_history).total_users = Cardinality(Writers)

\* ---- the handler's claims on the order of its steps
\* the handlers whose is_allowed call was denied
DeniedTasks == {t \in DOMAIN tasks : tasks[t].call > 0 /\ ~CallOf(t).allowed}

\* C22: when is_allowed denies a non-admin message, the handling of that message
\* ends with the rate limit reply: the step that makes the call leaves the
\* handler at the reply and the conversation manager untouched, the only step the
\* handler takes afterwards is the return of that reply, which leaves the
\* conversation manager untouched too, and the handler never reaches the provider
\* call.
C22_DeniedEnds ==
    [][\A t \in DeniedTasks' :
          /\ tasks'[t].pc \in {"rate_limited", "done"}
          /\ t \notin DOMAIN tasks =>
                tasks'[t].pc = "rate_limited" /\ UNCHANGED cmVars
          /\ (t \in DOMAIN tasks /\ tasks'[t] # tasks[t]) =>
                /\ tasks[t].pc = "rate_limited" /\ tasks'[t].pc = "done"
                /\ UNCHANGED cmVars]_vars

\* a denied message has been handled to its end while an allowed message of the
\* same identity waits for the provider
C22_Witness ==
    \E t \in DeniedTasks :
        /\ tasks[t].pc = "done"
        /\ \E o \in TasksOf(tasks[t].user) : tasks[o].pc = "generating"
        /\ conversations[tasks[t].user].messages # <<>>

\* the texts stored in the conversation manager
StoredTexts ==
    UNION {{conversations[u].messages[i].content :
               i \in 1..Len(conversations[u].messages)} : u \in DOMAIN conversations}

\* C23: for an allowed message the exchange (the user's message and the
\* assistant's reply) is written into the conversation manager only after the
\* provider call has returned successfully: nothing of it is stored while the
\* provider call is pending, and a failed provider call leaves the stored
\* conversation as it was before the message.
C23_WriteAfterReply ==
    \A t \in DOMAIN tasks :
        tasks[t].pc \in {"generating", "error_reply"}
        => UserText(t) \notin StoredTexts /\ Reply(t) \notin StoredTexts

\* ---- the claims on clear_conversation
\* the last call, made at this instant, was clear_conversation
Cleared == cm_ret.op = "clear_conversation"

\* the last call that wrote was clear_conversation, at this instant or earlier
ClearedLast == cm_last.op = "clear_conversation"

\* an empty history rooted at instant t
EmptyAt(t) == [messages |-> <<>>, created_at |-> t, last_activity |-> t]

\* the messages an append to the cleared identity would store now
AppendAfterClear(role, content) ==
    add_message(Conv(cm_last.user), role, content, now, max_history,
                Ticks(timeout_seconds)).messages

\* a read of the cleared identity after the clear returned the empty list
ReadAfterClearEmpty ==
    (ClearedLast /\ cm_ret.op = "get_conversation" /\ cm_ret.user = cm_last.user)
    => cm_ret.result = <<>>

\* an append to the cleared identity after the clear would store the new message only
AppendAfterClearAlone ==
    ClearedLast =>
        \A role \in Roles :
            AppendAfterClear(role, Content(n_appended + 1))
                = <<[role |-> role, content |-> Content(n_appended + 1), timestamp |-> now]>>

\* C24 as stated: clear_conversation(u) at time now leaves u, known or not, with
\* an empty history whose created_at and last_activity both equal now; a
\* following read returns the empty list and a following append stores only the
\* new message.
C24_ClearAny ==
    /\ Cleared => /\ cm_ret.user \in DOMAIN conversations
                  /\ conversations[cm_ret.user] = EmptyAt(now)
    /\ ReadAfterClearEmpty
    /\ AppendAfterClearAlone

\* C24 amended: clear_conversation(u) at time now leaves an identity that has a
\* record with an empty history whose created_at and last_activity both equal
\* now, and changes nothing for an identity without a record, which stays
\* without one; for any identity a following read returns the empty list and a
\* following append stores only the new message.
C24_ClearKnown ==
    /\ Cleared =>
          IF cm_ret.user \in DOMAIN cm_ret.before
          THEN conversations = Store(cm_ret.before, cm_ret.user, EmptyAt(now))
          ELSE conversations = cm_ret.before
    /\ ReadAfterClearEmpty
    /\ AppendAfterClearAlone

\* a conversation that held a message was cleared some time after it began
C24_Witness ==
    /\ Cleared
    /\ cm_ret.user \in DOMAIN cm_ret.before
    /\ cm_ret.before[cm_ret.user].messages # <<>>
    /\ now > cm_ret.before[cm_ret.user].created_at

\* ---- the claim on concurrent appends
\* the messages stored for u, none while u has no record
StoredFor(convs, u) == IF u \in DOMAIN convs THEN convs[u].messages ELSE <<>>

\* the two messages the handler t stores: the user's text and the provider's answer
MessagesOf(t) ==
    {[role |-> "user", content |-> UserText(t), timestamp |-> now],
     [role |-> "assistant", content |-> Reply(t), timestamp |-> now]}

\* the list new is the list old with the one message m appended and then trimmed,
\* u's history being discarded first if it had timed out
AppendedOnce(u, old, new, m) ==
    /\ \A i \in 1..Len(old) : old[i].content # m.content
    /\ IF u \in DOMAIN conversations
          /\ now - conversations[u].last_activity > Ticks(timeout_seconds)
       THEN new = <<m>>
       ELSE new = MostRecent(Append(old, m), max_history)

\* C25: add_message's append and trim are one step with respect to every other
\* operation on the same identity, under any interleaving of the handlers: no
\* state shows a list that is appended to and not yet trimmed, and every change
\* of an identity's list is the work of one handler of that identity, which adds
\* exactly one message to the list as the step found it, so that no appended
\* message is lost or duplicated by a race.
C25_AtomicAppend ==
    [][\A u \in DOMAIN conversations' :
          /\ Len(StoredFor(conversations', u)) <= max_history
          /\ StoredFor(conversations', u) # StoredFor(conversations, u) =>
                \E t \in DOMAIN tasks :
                    /\ tasks[t].user = u
                    /\ tasks'[t] # tasks[t]
                    /\ \A o \in DOMAIN tasks \ {t} : tasks'[o] = tasks[o]
                    /\ \E m \in MessagesOf(t) :
                          AppendedOnce(u, StoredFor(conversations, u),
                                       StoredFor(conversations', u), m)]_vars

\* two handlers of one identity have interleaved their appends: the second stored
\* its user message between the two appends of the first, and the list was trimmed
C25_Witness ==
    \E t1, t2 \in DOMAIN tasks :
        /\ t1 # t2 /\ tasks[t1].user = tasks[t2].user
        /\ tasks[t1].pc = "replying" /\ tasks[t2].pc = "generating"
        /\ RoleAndContent(conversations[tasks[t1].user].messages)
              = <<[role |-> "user", content |-> UserText(t2)],
                  [role |-> "assistant", content |-> Reply(t1)]>>

\* ---- the claims on repeated denied calls
\* the queue of u as its i-th call on record left it: what the next call found,
\* or what is stored now
QueueLeftBy(u, i) ==
    IF i < Len(calls[u]) THEN calls[u][i + 1].before ELSE Lookup(user_requests, u, <<>>)

\* the pairs of consecutive calls of one identity that were both denied
DeniedTwice ==
    UNION {{<<u, i>> : i \in {j \in 1..Len(calls[u]) - 1 :
                                 ~calls[u][j].allowed /\ ~calls[u][j + 1].allowed}} :
           u \in Users}

\* a denied call leaves in the queue only instants it found there
DeniedAddsNothing ==
    \A d \in Denied : IsSuffix(QueueLeftBy(d[1], d[2]), calls[d[1]][d[2]].before)

\* C26 as stated: a denied call adds no timestamp to the queue; of two consecutive
\* denied calls of one identity the second returns the same reset_at, and a
\* strictly smaller retry_after when it comes at a later instant.
C26_RetryStrictlyDecreases ==
    /\ DeniedAddsNothing
    /\ \A d \in DeniedTwice :
          LET a == calls[d[1]][d[2]]
              b == calls[d[1]][d[2] + 1]
          IN  /\ b.info.reset_at = a.info.reset_at
              /\ b.at > a.at => b.info.retry_after < a.info.retry_after

\* C26 amended: a denied call adds no timestamp to the queue; of two consecutive
\* denied calls of one identity the second returns the same reset_at and a
\* retry_after that is not larger, the time left to reset_at being strictly
\* smaller when it comes at a later instant: retry_after, cut to whole seconds,
\* may stay the same.
C26_RetryNeverGrows ==
    /\ DeniedAddsNothing
    /\ \A d \in DeniedTwice :
          LET a == calls[d[1]][d[2]]
              b == calls[d[1]][d[2] + 1]
          IN  /\ b.info.reset_at = a.info.reset_at
              /\ b.info.retry_after <= a.info.retry_after
              /\ b.at > a.at => b.info.reset_at - b.at < a.info.reset_at - a.at

\* an identity was denied twice in a row, the second time at a later instant and
\* with the same retry_after
C26_Witness ==
    \E d \in DeniedTwice :
        LET a == calls[d[1]][d[2]]
            b == calls[d[1]][d[2] + 1]
        IN  /\ b.at > a.at
            /\ b.info.retry_after = a.info.retry_after
            /\ QueueLeftBy(d[1], d[2] + 1) = a.before

\* ---- the claim on the reported retry time
\* every call of u after its denied call i and before the instant r was denied, and
\* the first call of u at or after r was allowed
ReadmittedAt(u, i, r) ==
    \A j \in i + 1..Len(calls[u]) :
        /\ calls[u][j].at < r => ~calls[u][j].allowed
        /\ (calls[u][j].at >= r /\ \A k \in i + 1..j - 1 : calls[u][k].at < r)
              => calls[u][j].allowed

\* C27 as stated: a call denied at time now gives reset_at = now + retry_after, and
\* with r that instant every later call before r is denied and the first call at
\* or after r is allowed.
C27_RetryAfterExact ==
    \A d \in Denied :
        LET c == calls[d[1]][d[2]]
        IN  /\ c.info.reset_at = c.at + Ticks(c.info.retry_after)
            /\ ReadmittedAt(d[1], d[2], c.at + Ticks(c.info.retry_after))

\* C27 amended: a call denied at time now gives reset_at >= now + retry_after, less
\* than a second later, and with r = reset_at every later call before r is denied
\* and the first call at or after r is allowed.
C27_ResetAtExact ==
    \A d \in Denied :
        LET c == calls[d[1]][d[2]]
        IN  /\ c.info.reset_at >= c.at + Ticks(c.info.retry_after)
            /\ c.info.reset_at < c.at + Ticks(c.info.retry_after + 1)
            /\ ReadmittedAt(d[1], d[2], c.info.reset_at)

\* an identity was denied with reset_at later than now + retry_after, and its
\* next call, at reset_at exactly, was allowed
C27_Witness ==
    \E d \in Denied :
        LET c == calls[d[1]][d[2]]
        IN  /\ c.info.reset_at > c.at + Ticks(c.info.retry_after)
            /\ d[2] < Len(calls[d[1]])
            /\ calls[d[1]][d[2] + 1].at = c.info.reset_at
            /\ calls[d[1]][d[2] + 1].allowed

\* ---- the claim on the shape of the queue
\* the identities whose queue is as an is_allowed call of the current instant left it
JustCalled == {u \in Users : calls[u] # <<>> /\ calls[u][Len(calls[u])].at = now}

\* C28: in every state each identity's queue is in non-decreasing order, oldest
\* instant first, and at most max_requests long; right after an is_allowed call at
\* time now every instant in the identity's queue lies within
\* [now - window_seconds, now].
C28_QueueShape ==
    /\ \A u \in DOMAIN user_requests :
          LET q == user_requests[u]
          IN  /\ \A i, j \in 1..Len(q) : i < j => q[i] <= q[j]
              /\ Len(q) <= max_requests
    /\ \A u \in JustCalled :
          LET q == user_requests[u]
          IN  \A i \in 1..Len(q) : q[i] >= now - W /\ q[i] <= now

\* an is_allowed call of the current instant found a full queue whose oldest
\* instant was exactly one window old, purged it and left a full queue of
\* distinct instants
C28_Witness ==
    \E u \in JustCalled :
        LET c == calls[u][Len(calls[u])]
            q == user_requests[u]
        IN  /\ max_requests > 1
            /\ Len(c.before) = max_requests /\ c.before[1] = now - W
            /\ Len(q) = max_requests /\ q[1] < q[Len(q)]

\* ---- the claim on totality
\* C29: with max_requests >= 1 and window_seconds >= 1 every is_allowed call
\* returns a decision and a complete rate_limit_info, none raises: a denied call
\* finds the purged queue non-empty, so the oldest instant it reads exists.
C29_Total ==
    /\ max_requests >= 1 /\ window_seconds >= 1
    /\ \A u \in Users : \A i \in 1..Len(calls[u]) :
          LET c == calls[u][i]
          IN  /\ DOMAIN c.info = {"remaining", "reset_at", "retry_after"}
              /\ ~c.allowed =>
                    /\ QueueLeftBy(u, i) # <<>>
                    /\ c.info.reset_at = QueueLeftBy(u, i)[1] + W

\* with the smallest configuration, one request per window of one second, a call
\* was denied and read the one instant in the queue
C29_Witness ==
    \E d \in Denied :
        LET c == calls[d[1]][d[2]]
        IN  /\ max_requests = 1 /\ window_seconds = 1
            /\ Len(QueueLeftBy(d[1], d[2])) = 1
            /\ c.info.reset_at = c.before[Len(c.before)] + W

\* ---- the claim on what refreshes last_activity
\* the operations that only read the store
ReadOps == {"get_conversation", "get_user_stats"}

\* every record the last call found is still there, unchanged
RecordsKept ==
    \A u \in DOMAIN cm_ret.before :
        u \in DOMAIN conversations /\ conversations[u] = cm_ret.before[u]

\* C30: get_conversation and get_user_stats on an existing record change neither
\* its last_activity nor its created_at nor its messages, so a record that is
\* read or inspected expires when it would have; add_message and clear_conversation
\* on an existing record set last_activity to now; and created_at <= last_activity
\* for every record in every state.
C30_ReadsKeepRecords ==
    /\ \A u \in DOMAIN conversations :
          conversations[u].created_at <= conversations[u].last_activity
    /\ cm_ret.op \in ReadOps => RecordsKept
    /\ cm_ret.op = "add_message" => conversations[cm_last.user].last_activity = now
    /\ (cm_ret.op = "clear_conversation" /\ cm_ret.user \in DOMAIN cm_ret.before)
          => conversations[cm_ret.user].last_activity = now

\* get_user_stats has just inspected a record with messages that had timed out,
\* created before its last activity
C30_Witness ==
    /\ cm_ret.op = "get_user_stats"
    /\ cm_ret.user \in DOMAIN cm_ret.before
    /\ ~cm_ret.result.is_active
    /\ conversations[cm_ret.user].messages # <<>>
    /\ conversations[cm_ret.user].created_at < conversations[cm_ret.user].last_activity
    /\ conversations[cm_ret.user].last_activity < now

\* ---- the claim on the cleanup and what readers see
\* the dict cleanup_expired_conversations leaves when it runs at time t
SweptAt(convs, t) ==
    [u \in DOMAIN convs \ ExpiredUsers(convs, t, Ticks(timeout_seconds)) |-> convs[u]]

\* what get_conversation(u) returns at time t on the dict convs
ReadAt(convs, u, t) ==
    get_conversation(Lookup(convs, u, NewConversation(t)), t, Ticks(timeout_seconds))

\* what get_conversation(u) returns after add_message(u, role, ...), both at time
\* t on the dict convs
AppendReadAt(convs, u, role, t) ==
    get_conversation(add_message(Lookup(convs, u, NewConversation(t)), role,
                                 Content(n_appended + 1), t, max_history,
                                 Ticks(timeout_seconds)),
                     t, Ticks(timeout_seconds))

\* the instants from now to one past the end of the clock
LaterTimes == now..MaxTimeCM + 1

\* at every later time readers of the dicts a and b see the same: a read returns
\* the same list, and a read after an append returns the same list
SameToReaders(a, b, from) ==
    \A u \in ActivityUsers : \A t \in {x \in LaterTimes : x >= from} :
        /\ ReadAt(a, u, t) = ReadAt(b, u, t)
        /\ \A role \in Roles :
              AppendReadAt(a, u, role, t) = AppendReadAt(b, u, role, t)

\* C31: cleanup_expired_conversations does not change what readers see: in every
\* state, for every identity and every later time, get_conversation, and
\* get_conversation after add_message, return the same whether or not the cleanup
\* runs in this state; and when the cleanup has just run, the dict it left and the
\* dict it found read the same.
C31_SweepTransparent ==
    /\ \/ SweptAt(conversations, now) = conversations
       \/ SameToReaders(SweptAt(conversations, now), conversations, now)
    /\ cm_ret.op = "cleanup_expired_conversations"
          => SameToReaders(conversations, cm_ret.before, now)

\* the cleanup has just deleted a record that held messages
C31_Witness ==
    /\ cm_ret.op = "cleanup_expired_conversations"
    /\ cm_ret.result > 0
    /\ \E u \in DOMAIN cm_ret.before :
          /\ u \notin DOMAIN conversations
          /\ cm_ret.before[u].messages # <<>>

\* ---- the claim on the order of a concurrent conversation
\* the stored message is the answer to the stored message before it
Answers(reply, msg) ==
    \E t \in DOMAIN tasks :
        /\ msg.role = "user" /\ msg.content = UserText(t)
        /\ reply.content = Reply(t)

\* C32: in every stored history an assistant message that is not the first of the
\* list stands directly after the user message it answers, also when two
\* messages of one identity are handled at the same time.
C32_RepliesPaired ==
    \A u \in DOMAIN conversations :
        LET m == conversations[u].messages
        IN  \A i \in 2..Len(m) :
                m[i].role = "assistant" => Answers(m[i], m[i - 1])

\* ---- the claim on what the dispatch layer stores
\* C33: in every state reached through handle_text and the /clear command alone,
\* every stored message has the role user or assistant, none the role system, and
\* every identity's stored list is at most max_history long.
C33_DispatchStores ==
    \A u \in DOMAIN conversations :
        LET m == conversations[u].messages
        IN  /\ \A i \in 1..Len(m) : m[i].role \in {"user", "assistant"}
            /\ Len(m) <= max_history

\* with max_history = 1 a handler has stored its reply, and the trim has dropped
\* the user's message that was stored before it
C33_Witness ==
    /\ max_history = 1
    /\ cm_last.op = "add_message" /\ cm_last.msg.role = "assistant"
    /\ cm_last.before # <<>> /\ cm_last.before[1].role = "user"
    /\ Len(conversations[cm_last.user].messages) = 1

\* ---- the claim on isolation between identities
\* the record of u in the dict d: a list of one record, or of none
RecordOf(d, u) == IF u \in DOMAIN d THEN <<d[u]>> ELSE <<>>

\* a step of an operation called for the identity a, on either store
OperationFor(a) ==
    \/ IsolationIsAllowed(a)
    \/ ResetUser(a)
    \/ GetUserStats(a)
    \/ IsolationAddMessage(a)
    \/ GetConversation(a)
    \/ ClearConversation(a)
    \/ ConvGetUserStats(a)

\* the step leaves b's records in both stores as they were, and with them what
\* is_allowed(b) and get_conversation(b) would return
Untouched(b) ==
    /\ RecordOf(user_requests', b) = RecordOf(user_requests, b)
    /\ RecordOf(user_stats', b) = RecordOf(user_stats, b)
    /\ RecordOf(conversations', b) = RecordOf(conversations, b)
    /\ IsAllowedNow(b)' = IsAllowedNow(b)
    /\ ReadAt(conversations', b, now') = ReadAt(conversations, b, now)

\* C34: an operation called for one identity on either store (is_allowed,
\* reset_user, get_user_stats, add_message, get_conversation, clear_conversation)
\* leaves every other identity's records unchanged, and with them the decision
\* is_allowed would give that identity and the history get_conversation would
\* return for it.
C34_Isolation ==
    [][\A b \in Users : Untouched(b) \/ \A a \in Users \ {b} : ~OperationFor(a)]_vars

\* two identities with records in both stores: with one request allowed per
\* window, one identity used its request and the other, called within that
\* window, was allowed its own; their histories differ
C34_Witness ==
    \E a, b \in Users :
        /\ a # b
        /\ max_requests = 1
        /\ \E i \in AdmittedCalls(a) : \E j \in AdmittedCalls(b) :
              /\ calls[b][j].at >= calls[a][i].at
              /\ calls[b][j].at < calls[a][i].at + W
        /\ a \in DOMAIN conversations /\ b \in DOMAIN conversations
        /\ conversations[a].messages # <<>> /\ conversations[b].messages # <<>>
        /\ conversations[a].messages # conversations[b].messages
        /\ a \in DOMAIN conversations /\ b \in DOMAIN conversations
        /\ conversations[a].messages # <<>> /\ conversations[b].messages # <<>>
        /\ conversations[a].messages # conversations[b].messages

====
